---- MODULE Spec2Model ----
(***************************************************************************)
(* Model of the unified-response module (mod.ts): the createResponse       *)
(* factory, the JavaScript values and objects it is called with, the       *)
(* wall clock it reads and the records it returns.                         *)
(***************************************************************************)
EXTENDS Integers, Sequences, FiniteSets, TLC

VARIABLES
    now,    \* the wall clock: the time value `new Date()` reads
    heap,   \* the objects that exist, by reference (1..Len(heap))
    log     \* the calls made so far: arguments, instant read, record returned

vars == <<now, heap, log>>

----------------------------------------------------------------------------
(* Bounds of the model.                                                    *)

\* clock instants reachable from a start instant (one Tick is 1 ms)
MaxElapsed == 3
\* calls in one behaviour of SpecLog
MaxCalls == 3

----------------------------------------------------------------------------
(* JavaScript values. An object value is a reference into the heap; an     *)
(* object is a mapping from its own enumerable keys to values.             *)

Undefined == [t |-> "undefined"]
Null == [t |-> "null"]
Bool(b) == [t |-> "boolean", b |-> b]
Num(n) == [t |-> "number", n |-> n]
Str(s) == [t |-> "string", s |-> s]
Obj(ref) == [t |-> "object", ref |-> ref]

EmptyObject == [k \in {} |-> Undefined]

\* ToBoolean, as `if (x)` and `x ? a : b` apply it
Truthy(v) ==
    CASE v.t = "undefined" -> FALSE
      [] v.t = "null" -> FALSE
      [] v.t = "boolean" -> v.b
      [] v.t = "number" -> v.n # 0
      [] v.t = "string" -> v.s # ""
      [] v.t = "object" -> TRUE

\* Object.keys(v) for a value that passed the truthiness test
ObjectKeys(v) ==
    IF v.t = "object" THEN DOMAIN heap[v.ref] ELSE {}

\* response.key = value
SetKey(o, k, v) ==
    [x \in DOMAIN o \cup {k} |-> IF x = k THEN v ELSE o[x]]

----------------------------------------------------------------------------
(* The clock and Date.prototype.toISOString. A time value is kept as       *)
(* day number and milliseconds within the day (t = day * msPerDay + ms).   *)

msPerDay == 24 * 60 * 60 * 1000

DayFromYear(y) ==
    365 * (y - 1970) + ((y - 1969) \div 4) - ((y - 1901) \div 100)
        + ((y - 1601) \div 400)

InLeapYear(y) ==
    (y % 4 = 0) /\ ((y % 100 # 0) \/ (y % 400 = 0))

YearFromTime(tv) ==
    CHOOSE y \in (1970 + tv.day \div 366)..(1970 + tv.day \div 365) :
        DayFromYear(y) <= tv.day /\ tv.day < DayFromYear(y + 1)

DayWithinYear(tv) == tv.day - DayFromYear(YearFromTime(tv))

\* day within the year on which month m (0-based) starts
MonthStart(m, leap) ==
    LET l == IF leap THEN 1 ELSE 0
    IN  CASE m = 0 -> 0
          [] m = 1 -> 31
          [] m = 2 -> 59 + l
          [] m = 3 -> 90 + l
          [] m = 4 -> 120 + l
          [] m = 5 -> 151 + l
          [] m = 6 -> 181 + l
          [] m = 7 -> 212 + l
          [] m = 8 -> 243 + l
          [] m = 9 -> 273 + l
          [] m = 10 -> 304 + l
          [] m = 11 -> 334 + l
          [] m = 12 -> 365 + l

MonthFromTime(tv) ==
    LET leap == InLeapYear(YearFromTime(tv))
        d == DayWithinYear(tv)
    IN  CHOOSE m \in 0..11 : MonthStart(m, leap) <= d /\ d < MonthStart(m + 1, leap)

DateFromTime(tv) ==
    DayWithinYear(tv)
        - MonthStart(MonthFromTime(tv), InLeapYear(YearFromTime(tv))) + 1

HourFromTime(tv) == tv.ms \div (60 * 60 * 1000)
MinFromTime(tv) == (tv.ms \div (60 * 1000)) % 60
SecFromTime(tv) == (tv.ms \div 1000) % 60
msFromTime(tv) == tv.ms % 1000

Pad2(n) == IF n < 10 THEN "0" \o ToString(n) ELSE ToString(n)

Pad3(n) == IF n < 100 THEN "0" \o Pad2(n) ELSE ToString(n)

Pad4(n) == IF n < 1000 THEN "0" \o Pad3(n) ELSE ToString(n)

\* truncates the instant to whole seconds
toISOString_noMillis(tv) ==
    Pad4(YearFromTime(tv)) \o "-" \o Pad2(MonthFromTime(tv) + 1) \o "-"
        \o Pad2(DateFromTime(tv)) \o "T" \o Pad2(HourFromTime(tv)) \o ":"
        \o Pad2(MinFromTime(tv)) \o ":" \o Pad2(SecFromTime(tv)) \o ".000Z"

\* YYYY-MM-DDTHH:mm:ss.sssZ
toISOString(tv) ==
    Pad4(YearFromTime(tv)) \o "-" \o Pad2(MonthFromTime(tv) + 1) \o "-"
        \o Pad2(DateFromTime(tv)) \o "T" \o Pad2(HourFromTime(tv)) \o ":"
        \o Pad2(MinFromTime(tv)) \o ":" \o Pad2(SecFromTime(tv)) \o "."
        \o Pad3(msFromTime(tv)) \o "Z"

\* the time value k milliseconds after tv
Advance(tv, k) ==
    [day |-> tv.day + ((tv.ms + k) \div msPerDay), ms |-> (tv.ms + k) % msPerDay]

\* instants at which a behaviour may start: just before the leap day ends,
\* just before the year ends, and the instant of the module's examples
ClockStarts ==
    { [day |-> 19782, ms |-> msPerDay - 2],
      [day |-> 19722, ms |-> msPerDay - 2],
      [day |-> 19840, ms |-> 45296789] }

----------------------------------------------------------------------------
(* The objects the callers own and pass in.                                *)

CallerHeap ==
    << [id |-> Num(1)],
       [code |-> Str("E_FAIL")],
       [page |-> Num(2)],
       EmptyObject,
       [a |-> Num(1), b |-> Num(2)],
       [success |-> Null, statusCode |-> Num(500), data |-> Str("spoof"),
        timestamp |-> Str("1970-01-01T00:00:00.000Z")] >>

DataObj == Obj(1)
ErrorObj == Obj(2)
MetaObj == Obj(3)
EmptyExtra == Obj(4)
AbExtra == Obj(5)
ShadowExtra == Obj(6)

----------------------------------------------------------------------------
(* createResponse                                                          *)

\* statusCode: number = success ? 200 : 400
DefaultStatusCode_always200(success) == Num(200)

DefaultStatusCode(success) ==
    IF Truthy(success) THEN Num(200) ELSE Num(400)

\* message: string = success ? 'Request was successful' : 'An error occurred'
DefaultMessage_sticky(success) ==
    IF log # <<>>
    THEN heap[log[Len(log)].ref]["message"]
    ELSE IF Truthy(success) THEN Str("Request was successful")
         ELSE Str("An error occurred")

DefaultMessage_swapped(success) ==
    IF Truthy(success) THEN Str("An error occurred")
    ELSE Str("Request was successful")

DefaultMessage(success) ==
    IF Truthy(success) THEN Str("Request was successful")
    ELSE Str("An error occurred")

\* a parameter default applies when the argument is undefined
Param(arg, default) == IF arg = Undefined THEN default ELSE arg

\* if (data !== null && data !== undefined) response.data = data;
WithData_truthy(response, data) ==
    IF Truthy(data) THEN SetKey(response, "data", data) ELSE response

WithData(response, data) ==
    IF data # Null /\ data # Undefined
    THEN SetKey(response, "data", data)
    ELSE response

\* if (error) response.error = error;
WithError(response, error) ==
    IF Truthy(error) THEN SetKey(response, "error", error) ELSE response

\* if (metadata) response.metadata = metadata;
WithMetadata(response, metadata) ==
    IF Truthy(metadata) THEN SetKey(response, "metadata", metadata) ELSE response

\* if (extraFields && Object.keys(extraFields).length > 0)
\*   response.extraFields = extraFields;
WithExtraFields_noLengthTest(response, extraFields) ==
    IF Truthy(extraFields)
    THEN SetKey(response, "extraFields", extraFields)
    ELSE response

WithExtraFields_spread(response, extraFields) ==
    IF Truthy(extraFields) /\ Cardinality(ObjectKeys(extraFields)) > 0
    THEN [x \in DOMAIN response \cup ObjectKeys(extraFields) |->
            IF x \in ObjectKeys(extraFields)
            THEN heap[extraFields.ref][x] ELSE response[x]]
    ELSE response

WithExtraFields(response, extraFields) ==
    IF Truthy(extraFields) /\ Cardinality(ObjectKeys(extraFields)) > 0
    THEN SetKey(response, "extraFields", extraFields)
    ELSE response

\* the record createResponse returns for its seven positional parameters
createResponse(success, statusCode, message, data, error, metadata, extraFields) ==
    LET statusCode1 == Param(statusCode, DefaultStatusCode(success))
        message1 == Param(message, DefaultMessage(success))
        data1 == Param(data, Null)
        error1 == Param(error, Null)
        metadata1 == Param(metadata, Null)
        extraFields1 == Param(extraFields, EmptyExtra)
        response == [success |-> success,
                     statusCode |-> statusCode1,
                     message |-> message1,
                     timestamp |-> Str(toISOString(now))]
    IN  WithExtraFields(
            WithMetadata(
                WithError(
                    WithData(response, data1),
                    error1),
                metadata1),
            extraFields1)

\* every call writes its record into one object kept by the module
Allocate_shared(h, object) ==
    IF Len(h) > Len(CallerHeap)
    THEN [h EXCEPT ![Len(h)] = object]
    ELSE Append(h, object)

\* the object literal creates a new object
Allocate(h, object) == Append(h, object)

----------------------------------------------------------------------------
(* Arguments. A call passes seven positions; a position not supplied is    *)
(* undefined.                                                              *)

ArgSpace ==
    { <<a1, a2, a3, a4, a5, a6, a7>> :
        a1 \in {Bool(TRUE), Bool(FALSE)},
        a2 \in {Undefined, Num(404), DataObj},
        a3 \in {Undefined, Str("Not found")},
        a4 \in {Undefined, Null, Num(0), Num(200), DataObj},
        a5 \in {Undefined, Null, Num(0), ErrorObj},
        a6 \in {Undefined, Null, Str(""), MetaObj},
        a7 \in {Undefined, Null, EmptyExtra, AbExtra, ShadowExtra} }

Scenarios ==
    { <<Bool(TRUE), Undefined, Undefined, Undefined, Undefined, Undefined, Undefined>>,
      <<Bool(FALSE), Num(404), Str("Not found"), Undefined, Undefined, Undefined, Undefined>>,
      <<Bool(TRUE), Num(200), Str("ok"), DataObj, Null, Null, AbExtra>>,
      <<Bool(FALSE), Undefined, Undefined, Null, ErrorObj, MetaObj, ShadowExtra>>,
      <<Bool(TRUE), DataObj, Str("Request was successful"), Num(200), Undefined, Undefined, EmptyExtra>> }

----------------------------------------------------------------------------
(* The state machine.                                                      *)

Init ==
    /\ now \in ClockStarts
    /\ heap = CallerHeap
    /\ log = <<>>

\* the wall clock advances by a millisecond
Tick ==
    /\ \E s \in ClockStarts : \E k \in 0..(MaxElapsed - 1) : now = Advance(s, k)
    /\ now' = Advance(now, 1)
    /\ UNCHANGED <<heap, log>>

\* one call createResponse(argv[1], ..., argv[7])
Call(argv) ==
    LET record == createResponse(argv[1], argv[2], argv[3], argv[4],
                                 argv[5], argv[6], argv[7])
    IN  /\ heap' = Allocate(heap, record)
        /\ log' = Append(log, [argv |-> argv, at |-> now, ref |-> Len(heap'),
                               ret |-> record])
        /\ UNCHANGED now

\* a single call with any arguments
CallOnce ==
    /\ log = <<>>
    /\ \E argv \in ArgSpace : Call(argv)

\* a further call in a sequence of calls
CallAgain ==
    /\ Len(log) < MaxCalls
    /\ \E argv \in Scenarios : Call(argv)

Next == Tick \/ CallOnce

Spec == Init /\ [][Next]_vars

NextLog == Tick \/ CallAgain

SpecLog == Init /\ [][NextLog]_vars

----------------------------------------------------------------------------
(* Properties of a single call (checked under Spec) and of sequences of    *)
(* calls (checked under SpecLog).                                          *)

Calls == 1..Len(log)
Argv(i) == log[i].argv
Record(i) == heap[log[i].ref]
Keys(i) == DOMAIN Record(i)

\* the default status an omitted statusCode stands for
StatusFor(success) == IF success = Bool(TRUE) THEN Num(200) ELSE Num(400)

\* the default message an omitted message stands for
MessageFor(success) ==
    IF success = Bool(TRUE) THEN Str("Request was successful")
    ELSE Str("An error occurred")

\* the value is an object the caller owns, and that object is as the caller made it
Intact(v) ==
    v.t = "object" => (v.ref \in 1..Len(CallerHeap) /\ heap[v.ref] = CallerHeap[v.ref])

\* C1: with no statusCode supplied the record's statusCode is 200 for
\* success = true and 400 for success = false, whatever else is supplied;
\* a supplied statusCode is returned as supplied, regardless of success.
C1_StatusCodeDefault ==
    \A i \in Calls :
        /\ "statusCode" \in Keys(i)
        /\ Record(i)["statusCode"] =
             IF Argv(i)[2] = Undefined THEN StatusFor(Argv(i)[1]) ELSE Argv(i)[2]

C1_Witness ==
    \E i \in Calls :
        /\ Argv(i)[1] = Bool(FALSE)
        /\ Argv(i)[2] = Undefined
        /\ Argv(i)[3] # Undefined
        /\ Argv(i)[4] # Undefined
        /\ Record(i)["statusCode"] = Num(400)

\* C2: with no message supplied the record's message is "Request was
\* successful" for success = true and "An error occurred" for success =
\* false, whether or not a statusCode was supplied; a supplied message is
\* returned as supplied.
C2_MessageDefault ==
    \A i \in Calls :
        /\ "message" \in Keys(i)
        /\ Record(i)["message"] =
             IF Argv(i)[3] = Undefined THEN MessageFor(Argv(i)[1]) ELSE Argv(i)[3]

C2_Witness ==
    \E i \in Calls :
        /\ Argv(i)[1] = Bool(FALSE)
        /\ Argv(i)[2] = Num(404)
        /\ Argv(i)[3] = Undefined
        /\ Record(i)["message"] = Str("An error occurred")

C6_DataFirstOrder ==
    \A i \in Calls :
        (/\ Argv(i)[1] = Bool(TRUE)
         /\ Argv(i)[2].t = "object"
         /\ Argv(i)[3].t = "string"
         /\ Argv(i)[4].t = "number") =>
            /\ "data" \in Keys(i)
            /\ Record(i)["data"] = Argv(i)[2]
            /\ Record(i)["message"] = Argv(i)[3]
            /\ Record(i)["statusCode"] = Argv(i)[4]
            /\ Argv(i)[7] \in {AbExtra, ShadowExtra} =>
                 ("extraFields" \in Keys(i) /\ Record(i)["extraFields"] = Argv(i)[7])

\* C7: every record has the keys data, error and metadata, null when no
\* value was supplied, and the key extraFields, the empty mapping when no
\* extra fields were supplied.
C7_AlwaysAllKeys ==
    \A i \in Calls :
        /\ {"data", "error", "metadata", "extraFields"} \subseteq Keys(i)
        /\ Argv(i)[4] = Undefined => Record(i)["data"] = Null
        /\ Argv(i)[5] = Undefined => Record(i)["error"] = Null
        /\ Argv(i)[6] = Undefined => Record(i)["metadata"] = Null
        /\ Argv(i)[7] = Undefined =>
             (Record(i)["extraFields"].t = "object"
              /\ heap[Record(i)["extraFields"].ref] = EmptyObject)

FixedKeys == {"success", "statusCode", "message", "timestamp"}
OptionalKeys == {"data", "error", "metadata", "extraFields"}

KnownInstants ==
    { <<[day |-> 19840, ms |-> 45296789], "2024-04-27T12:34:56.789Z">>,
      <<[day |-> 19840, ms |-> 45296790], "2024-04-27T12:34:56.790Z">>,
      <<[day |-> 19782, ms |-> 86399998], "2024-02-29T23:59:59.998Z">>,
      <<[day |-> 19782, ms |-> 86399999], "2024-02-29T23:59:59.999Z">>,
      <<[day |-> 19783, ms |-> 0], "2024-03-01T00:00:00.000Z">>,
      <<[day |-> 19783, ms |-> 1], "2024-03-01T00:00:00.001Z">>,
      <<[day |-> 19722, ms |-> 86399999], "2023-12-31T23:59:59.999Z">>,
      <<[day |-> 19723, ms |-> 0], "2024-01-01T00:00:00.000Z">> }

\* C5: every record has a timestamp key holding the wall-clock instant read
\* during its call; no argument, the contents of extraFields included, sets
\* or changes it; a call made after the clock advanced never carries the
\* timestamp of an earlier call.
C5_Timestamp ==
    /\ \A i \in Calls :
        /\ "timestamp" \in Keys(i)
        /\ Record(i)["timestamp"].t = "string"
        /\ \A ki \in KnownInstants :
             log[i].at = ki[1] => Record(i)["timestamp"] = Str(ki[2])
    /\ \A i, j \in Calls :
        (log[i].at = log[j].at) <=> (Record(i)["timestamp"] = Record(j)["timestamp"])

C5_Witness ==
    \E i, j \in Calls :
        /\ i < j
        /\ log[i].at = [day |-> 19782, ms |-> 86399999]
        /\ log[j].at = [day |-> 19783, ms |-> 0]
        /\ Argv(j)[7] = ShadowExtra
        /\ Record(i)["timestamp"] = Str("2024-02-29T23:59:59.999Z")
        /\ Record(j)["timestamp"] = Str("2024-03-01T00:00:00.000Z")

\* the two records have the same keys and agree on every key but timestamp
SameButTimestamp(r1, r2) ==
    /\ DOMAIN r1 = DOMAIN r2
    /\ \A k \in DOMAIN r1 \ {"timestamp"} : r1[k] = r2[k]

\* C8: two calls with identical arguments return records with the same keys
\* and equal values for every key except possibly timestamp, whatever calls
\* came before or between them; made at the same clock instant, the two
\* records are equal in every field.
C8_Determinism ==
    \A i, j \in Calls :
        Argv(i) = Argv(j) =>
            /\ SameButTimestamp(Record(i), Record(j))
            /\ log[i].at = log[j].at => Record(i) = Record(j)

C8_Witness ==
    \E i, j, k \in Calls :
        /\ i < j /\ j < k
        /\ Argv(i) = Argv(k)
        /\ Argv(j) # Argv(i)
        /\ Argv(i)[3] = Undefined
        /\ Argv(j)[3] # Undefined
        /\ log[i].at # log[k].at
        /\ Record(i)["timestamp"] # Record(k)["timestamp"]
        /\ Record(i)["message"] = Record(k)["message"]

\* the record a call with these arguments, reading this instant, returns
\* when nothing else has been called
AloneRecord(argv, at) ==
    LET present ==
            FixedKeys
              \cup (IF argv[4] \in {Undefined, Null} THEN {} ELSE {"data"})
              \cup (IF argv[5].t = "object" THEN {"error"} ELSE {})
              \cup (IF argv[6].t = "object" THEN {"metadata"} ELSE {})
              \cup (IF argv[7].t = "object" /\ CallerHeap[argv[7].ref] # EmptyObject
                    THEN {"extraFields"} ELSE {})
    IN  [k \in present |->
            CASE k = "success" -> argv[1]
              [] k = "statusCode" ->
                   IF argv[2] = Undefined THEN StatusFor(argv[1]) ELSE argv[2]
              [] k = "message" ->
                   IF argv[3] = Undefined THEN MessageFor(argv[1]) ELSE argv[3]
              [] k = "timestamp" -> Str(toISOString(at))
              [] k = "data" -> argv[4]
              [] k = "error" -> argv[5]
              [] k = "metadata" -> argv[6]
              [] k = "extraFields" -> argv[7]]

\* C9: a call changes nothing but its own result: the objects passed in are
\* unchanged, nothing is kept between calls, every call returns a newly
\* created record distinct from every record returned before (and those
\* stay as they were returned), and each record is the one the call would
\* have returned had it run alone.
C9_Frame ==
    /\ Len(heap) = Len(CallerHeap) + Len(log)
    /\ \A a \in 1..Len(CallerHeap) : heap[a] = CallerHeap[a]
    /\ \A i \in Calls :
        /\ log[i].ref = Len(CallerHeap) + i
        /\ Record(i) = log[i].ret
        /\ Record(i) = AloneRecord(Argv(i), log[i].at)
    /\ \A i, j \in Calls : i # j => log[i].ref # log[j].ref

C9_Witness ==
    \E i, j, k \in Calls :
        /\ i < j /\ j < k
        /\ Argv(i)[4] = DataObj /\ Argv(i)[7] = AbExtra
        /\ Argv(j)[2] = DataObj
        /\ Argv(k) = Argv(i)
        /\ log[k].ref # log[i].ref
        /\ Record(i)["data"] = Record(k)["data"]
        /\ heap[Record(k)["extraFields"].ref] = [a |-> Num(1), b |-> Num(2)]

====
